---- MODULE Spec2Model ----
(***************************************************************************)
(* Model of the bar-by-bar backtesting engine: Engine (engine.py), the     *)
(* Strategy base class (strategy.py), Order (order.py), Trade (trade.py).  *)
(* Prices, sizes and cash are Python floats in the source; the model uses  *)
(* integer values, on which float arithmetic is exact.                     *)
(***************************************************************************)
EXTENDS Integers, Sequences, FiniteSets, TLC

(***************************************************************************)
(* Bounds of the model.                                                    *)
(***************************************************************************)
\* number of order-placement calls the strategy makes over its lifetime
MaxPlaced == 3
\* number of calls of Engine.run
MaxRuns == 2

(***************************************************************************)
(* Inputs.                                                                 *)
(***************************************************************************)
\* Python's None for current_idx and limit_price (dates and prices are > 0)
None == 0

\* An OHLC table handed to add_data: date (a day number) unique and strictly
\* increasing.  Opens 10, 50, 60 and the low 45 of the second bar are those
\* of the documented scenarios A and B.
ScenarioBars ==
  << [date |-> 1, open |-> 10, high |-> 12, low |-> 9,  close |-> 11],
     [date |-> 2, open |-> 50, high |-> 55, low |-> 45, close |-> 51],
     [date |-> 3, open |-> 60, high |-> 65, low |-> 55, close |-> 62] >>

\* A table with a single row
OneBar ==
  << [date |-> 1, open |-> 10, high |-> 12, low |-> 9, close |-> 11] >>

\* the tables the caller may hand to add_data
DataChoices == {ScenarioBars, OneBar}

\* A table that gaps down after its first bar and then rises: with cash 1000,
\* 10 shares bought at the open 50 of bar 2 make total_aum 1000, 2000, 4000
\* at the three closes
RisingBars ==
  << [date |-> 1, open |-> 100, high |-> 125, low |-> 95,  close |-> 120],
     [date |-> 2, open |-> 50,  high |-> 155, low |-> 45,  close |-> 150],
     [date |-> 3, open |-> 150, high |-> 360, low |-> 140, close |-> 350] >>

\* initial_cash passed to Engine(...)
InitialCashChoices == {1000}
\* magnitudes the strategy passes as size
Sizes == {10}
\* limit prices the strategy passes to buy_limit: below the lows of bars 2
\* and 3, and one above the open of bar 2 that equals the low of bar 3
BuyLimitPrices == {40, 55}
\* limit prices the strategy passes to sell_limit: the high of bar 2, and one
\* above the high of bar 2 that equals the high of bar 3
SellLimitPrices == {55, 65}
\* the single traded symbol
Tickers == {"T"}

\* utils.py enumerations
OrderSide == {"buy", "sell"}
OrderType == {"market", "limit", "stop", "stop_limit"}

VARIABLES
  strategy_attached,     \* engine.strategy is not None
  data_attached,         \* engine.data is not None
  data,                  \* engine.data (<< >> while it is None)
  cash,                  \* engine.cash
  initial_cash,          \* engine.initial_cash
  current_idx,           \* engine.current_idx
  cash_series,           \* engine.cash_series  (dict date -> cash)
  stock_series,          \* engine.stock_series (dict date -> stock value)
  portfolio,             \* engine.portfolio, built by _get_stats
  strategy_current_idx,  \* strategy.current_idx
  strategy_data,         \* strategy.data is not None
  strategy_cash,         \* strategy.cash (None before the first run)
  orders,                \* strategy.orders
  trades,                \* strategy.trades
  pc,                    \* position of the caller inside Engine.run
  barpos,                \* position of the row iterator of run's for loop
  fi,                    \* position of _fill_orders' for loop in orders
  result,                \* outcome of the last call of run
  runs,                  \* number of calls of run so far
  placed,                \* number of order-placement calls so far
  strategy_raised        \* what the last order-placement call raised

vars == << strategy_attached, data_attached, data, cash, initial_cash,
           current_idx, cash_series, stock_series, portfolio,
           strategy_current_idx,
           strategy_data, strategy_cash, orders, trades, pc, barpos, fi,
           result, runs, placed, strategy_raised >>

\* engine.data, read by run, _fill_orders and _get_stats
Data == data

engineVars == << strategy_attached, data_attached, data, cash, initial_cash,
                 current_idx, cash_series, stock_series, portfolio >>
loopVars == << pc, barpos, fi, result, runs >>

(***************************************************************************)
(* Value objects.                                                          *)
(***************************************************************************)
\* Order.__init__
Order(ticker, side, size, idx, limit_price, order_type) ==
  [ticker |-> ticker, side |-> side, size |-> size, type |-> order_type,
   limit_price |-> limit_price, idx |-> idx]

\* Trade.__init__
Trade(ticker, side, size, price, type, idx) ==
  [ticker |-> ticker, side |-> side, size |-> size, type |-> type,
   price |-> price, idx |-> idx]

RECURSIVE SumSizes_longs(_)
SumSizes_longs(ts) ==
  IF ts = << >> THEN 0
  ELSE (IF ts[1].size > 0 THEN ts[1].size ELSE 0) + SumSizes_longs(Tail(ts))

RECURSIVE SumSizes(_)
SumSizes(ts) ==
  IF ts = << >> THEN 0 ELSE ts[1].size + SumSizes(Tail(ts))

\* Strategy.position_size
position_size == SumSizes(trades)

\* self.data.filter(pl.col("date") == self.current_idx)
Row(idx) == CHOOSE r \in { Data[i] : i \in DOMAIN Data } : r.date = idx

DictSet_reset(d, k, v) == [x \in {k} |-> v]

\* dict assignment d[k] = v
DictSet(d, k, v) ==
  [x \in (DOMAIN d) \cup {k} |-> IF x = k THEN v ELSE d[x]]

(***************************************************************************)
(* Construction: Engine.__init__ and Strategy.__init__                     *)
(***************************************************************************)
Init ==
  /\ strategy_attached = FALSE
  /\ data_attached = FALSE
  /\ data = << >>
  /\ initial_cash \in InitialCashChoices
  /\ cash = initial_cash
  /\ current_idx = None
  /\ cash_series = << >>
  /\ stock_series = << >>
  /\ portfolio = << >>
  /\ strategy_current_idx = None
  /\ strategy_data = FALSE
  /\ strategy_cash = None
  /\ orders = << >>
  /\ trades = << >>
  /\ pc = "idle"
  /\ barpos = 0
  /\ fi = 0
  /\ result = "none"
  /\ runs = 0
  /\ placed = 0
  /\ strategy_raised = "none"

\* Engine.add_data
add_data ==
  /\ pc = "idle"
  /\ ~data_attached
  /\ data_attached' = TRUE
  /\ data' \in DataChoices
  /\ UNCHANGED << strategy_attached, cash, initial_cash, current_idx,
                  cash_series, stock_series, portfolio, strategy_current_idx,
                  strategy_data, strategy_cash, orders, trades, loopVars,
                  placed, strategy_raised >>

\* Engine.add_data, handed the rising table
add_data_rising ==
  /\ pc = "idle"
  /\ ~data_attached
  /\ data_attached' = TRUE
  /\ data' = RisingBars
  /\ UNCHANGED << strategy_attached, cash, initial_cash, current_idx,
                  cash_series, stock_series, portfolio, strategy_current_idx,
                  strategy_data, strategy_cash, orders, trades, loopVars,
                  placed, strategy_raised >>

\* Engine.add_strategy
add_strategy ==
  /\ pc = "idle"
  /\ ~strategy_attached
  /\ strategy_attached' = TRUE
  /\ UNCHANGED << data_attached, data, cash, initial_cash, current_idx,
                  cash_series, stock_series, portfolio, strategy_current_idx,
                  strategy_data, strategy_cash, orders, trades, loopVars,
                  placed, strategy_raised >>

(***************************************************************************)
(* Engine.run: the checks and the preprocessing before the loop            *)
(***************************************************************************)
run_no_data_check ==
  /\ pc = "idle"
  /\ runs < MaxRuns
  /\ runs' = runs + 1
  /\ IF ~strategy_attached
       THEN /\ result' = "ValueError"
            /\ UNCHANGED << engineVars, strategy_current_idx, strategy_data,
                            strategy_cash, orders, trades, pc, barpos, fi,
                            placed, strategy_raised >>
       ELSE /\ strategy_data' = TRUE
            /\ strategy_cash' = cash
            /\ result' = "running"
            /\ barpos' = 1
            /\ pc' = IF Len(Data) >= 1 THEN "bar" ELSE "stats"
            /\ UNCHANGED << engineVars, strategy_current_idx, orders, trades,
                            fi, placed, strategy_raised >>

run ==
  /\ pc = "idle"
  /\ runs < MaxRuns
  /\ runs' = runs + 1
  /\ IF ~strategy_attached \/ ~data_attached
       THEN /\ result' = "ValueError"
            /\ UNCHANGED << engineVars, strategy_current_idx, strategy_data,
                            strategy_cash, orders, trades, pc, barpos, fi,
                            placed, strategy_raised >>
       ELSE /\ strategy_data' = TRUE
            /\ strategy_cash' = cash
            /\ result' = "running"
            /\ barpos' = 1
            /\ pc' = IF Len(Data) >= 1 THEN "bar" ELSE "stats"
            /\ UNCHANGED << engineVars, strategy_current_idx, orders, trades,
                            fi, placed, strategy_raised >>

(***************************************************************************)
(* Engine._fill_orders                                                     *)
(***************************************************************************)
BuyCashOk_strict(order, open) == cash > order.size * open

\* line 107: the cash test of a buy, against size * open
BuyCashOk(order, open) == cash >= order.size * open

BuyLimitOk_strict(order, low) == order.limit_price > low

\* line 116: the limit test of a limit buy
BuyLimitOk(order, low) == order.limit_price >= low

\* line 141: the position test of a sell
SellPositionOk(order) == position_size >= order.size

\* line 148: the limit test of a limit sell
SellLimitOk(order, high) == order.limit_price <= high

CanFill_alone(order) ==
  LET row == Row(current_idx) IN
  /\ Len(orders) = 1
  /\ IF order.side = "buy" /\ BuyCashOk(order, row.open)
       THEN IF order.type = "limit" THEN BuyLimitOk(order, row.low) ELSE TRUE
     ELSE IF order.side = "sell" /\ SellPositionOk(order)
       THEN IF order.type = "limit" THEN SellLimitOk(order, row.high) ELSE TRUE
     ELSE FALSE

\* lines 102-169: can_fill after the if / elif
CanFill(order) ==
  LET row == Row(current_idx) IN
  IF order.side = "buy" /\ BuyCashOk(order, row.open)
    THEN IF order.type = "limit" THEN BuyLimitOk(order, row.low) ELSE TRUE
  ELSE IF order.side = "sell" /\ SellPositionOk(order)
    THEN IF order.type = "limit" THEN SellLimitOk(order, row.high) ELSE TRUE
  ELSE FALSE

\* lines 99-101, 117, 149: fill_price when can_fill is set
FillPrice(order) ==
  IF order.type = "limit" THEN order.limit_price ELSE Row(current_idx).open

CashAfterFill_magnitude(t) ==
  cash - t.price * (IF t.size < 0 THEN -t.size ELSE t.size)

\* line 182: self.cash -= t.price * t.size
CashAfterFill(t) == cash - t.price * t.size

TradesAfterFill_prepend(t) == << t >> \o trades

\* line 181: self.strategy.trades.append(t)
TradesAfterFill(t) == Append(trades, t)

ClearedOrders_kept == orders

\* line 189: self.strategy.orders = []
ClearedOrders == << >>

\* one iteration of the loop of line 97 on orders[fi]; the iteration that
\* exhausts the list also runs line 189 and returns to run, which calls on_bar
FillOrder ==
  /\ pc = "fill"
  /\ LET order == orders[fi]
         t == Trade(order.ticker, order.side, order.size, FillPrice(order),
                    order.type, current_idx)
     IN IF CanFill(order)
          THEN /\ trades' = TradesAfterFill(t)
               /\ cash' = CashAfterFill(t)
               /\ strategy_cash' = cash'
          ELSE UNCHANGED << trades, cash, strategy_cash >>
  /\ IF fi < Len(orders)
       THEN /\ fi' = fi + 1
            /\ UNCHANGED << orders, pc >>
       ELSE /\ fi' = 0
            /\ orders' = ClearedOrders
            /\ pc' = "on_bar"
  /\ UNCHANGED << strategy_attached, data_attached, data, initial_cash,
                  current_idx, cash_series, stock_series, portfolio,
                  strategy_current_idx, strategy_data, barpos, result, runs,
                  placed, strategy_raised >>

NextBar_engine_only ==
  /\ pc = "bar"
  /\ current_idx' = Data[barpos].date
  /\ IF orders = << >>
       THEN /\ orders' = ClearedOrders
            /\ pc' = "on_bar"
            /\ fi' = 0
       ELSE /\ pc' = "fill"
            /\ fi' = 1
            /\ UNCHANGED orders
  /\ UNCHANGED << strategy_attached, data_attached, data, cash, initial_cash,
                  cash_series, stock_series, portfolio, strategy_current_idx,
                  strategy_data, strategy_cash, trades, barpos, result, runs,
                  placed, strategy_raised >>

\* run lines 68-72: the loop takes the next row, sets both current_idx and
\* enters _fill_orders; with nothing pending the call only runs line 189
NextBar ==
  /\ pc = "bar"
  /\ current_idx' = Data[barpos].date
  /\ strategy_current_idx' = current_idx'
  /\ IF orders = << >>
       THEN /\ orders' = ClearedOrders
            /\ pc' = "on_bar"
            /\ fi' = 0
       ELSE /\ pc' = "fill"
            /\ fi' = 1
            /\ UNCHANGED orders
  /\ UNCHANGED << strategy_attached, data_attached, data, cash, initial_cash,
                  cash_series, stock_series, portfolio, strategy_data,
                  strategy_cash, trades, barpos, result, runs, placed,
                  strategy_raised >>

(***************************************************************************)
(* Strategy: the order-placement methods.  on_bar calls them while the     *)
(* engine is in its loop; nothing stops the caller from calling them on    *)
(* the strategy object while no run is active.                             *)
(***************************************************************************)
\* the common body of the four methods: the current_idx test, then the append
Place(order) ==
  /\ pc \in {"on_bar", "idle"}
  /\ placed < MaxPlaced
  /\ placed' = placed + 1
  /\ IF strategy_current_idx = None
       THEN /\ strategy_raised' = "ValueError"
            /\ UNCHANGED orders
       ELSE /\ orders' = Append(orders, order)
            /\ strategy_raised' = "none"
  /\ UNCHANGED << engineVars, strategy_current_idx, strategy_data,
                  strategy_cash, trades, loopVars >>

\* Strategy.buy(ticker, size)
CallBuy(ticker, size) ==
  Place(Order(ticker, "buy", size, strategy_current_idx, None, "market"))

CallSell_unsigned(ticker, size) ==
  Place(Order(ticker, "sell", size, strategy_current_idx, None, "market"))

\* Strategy.sell(ticker, size)
CallSell(ticker, size) ==
  Place(Order(ticker, "sell", -size, strategy_current_idx, None, "market"))

\* Strategy.buy_limit(ticker, limit_price, size)
CallBuyLimit(ticker, limit_price, size) ==
  Place(Order(ticker, "buy", size, strategy_current_idx, limit_price,
              "limit"))

\* Strategy.sell_limit(ticker, limit_price, size)
CallSellLimit(ticker, limit_price, size) ==
  Place(Order(ticker, "sell", -size, strategy_current_idx, limit_price,
              "limit"))

\* Strategy.buy
buy ==
  \E ticker \in Tickers, size \in Sizes : CallBuy(ticker, size)

\* Strategy.sell
sell ==
  \E ticker \in Tickers, size \in Sizes : CallSell(ticker, size)

\* Strategy.buy_limit
buy_limit ==
  \E ticker \in Tickers, limit_price \in BuyLimitPrices, size \in Sizes :
    CallBuyLimit(ticker, limit_price, size)

\* Strategy.sell_limit
sell_limit ==
  \E ticker \in Tickers, limit_price \in SellLimitPrices, size \in Sizes :
    CallSellLimit(ticker, limit_price, size)

\* order kinds no Strategy method creates
StopTypes == {"stop", "stop_limit"}

\* on_bar of a subclass builds an Order of kind STOP or STOP_LIMIT itself and
\* appends it to self.orders (Order.__init__ takes any OrderType)
append_stop_order ==
  /\ pc = "on_bar"
  /\ placed < MaxPlaced
  /\ placed' = placed + 1
  /\ \E ticker \in Tickers, side \in OrderSide, size \in Sizes,
        type \in StopTypes :
       orders' = Append(orders,
                   Order(ticker, side, IF side = "buy" THEN size ELSE -size,
                         strategy_current_idx, None, type))
  /\ UNCHANGED << engineVars, strategy_current_idx, strategy_data,
                  strategy_cash, trades, loopVars, strategy_raised >>

(***************************************************************************)
(* run lines 75-77: on_bar returns, the snapshot of the bar is stored and  *)
(* the loop goes to the next row or ends                                   *)
(***************************************************************************)
Snapshot ==
  /\ pc = "on_bar"
  /\ cash_series' = DictSet(cash_series, current_idx, cash)
  /\ stock_series' =
       DictSet(stock_series, current_idx, position_size * Data[barpos].close)
  /\ barpos' = barpos + 1
  /\ pc' = IF barpos < Len(Data) THEN "bar" ELSE "stats"
  /\ UNCHANGED << strategy_attached, data_attached, data, cash, initial_cash,
                  current_idx, portfolio, strategy_current_idx, strategy_data,
                  strategy_cash, orders, trades, fi, result, runs, placed,
                  strategy_raised >>

(***************************************************************************)
(* Engine._get_stats: the portfolio frame (lines 200-216)                  *)
(***************************************************************************)
\* keys of a dict in insertion order; dates are inserted in increasing order
RECURSIVE KeysOf(_)
KeysOf(S) ==
  IF S = {} THEN << >>
  ELSE LET k == CHOOSE x \in S : \A y \in S : x <= y
       IN << k >> \o KeysOf(S \ {k})

Portfolio_cash_only ==
  LET keys == KeysOf(DOMAIN stock_series) IN
  [i \in 1..Len(keys) |->
     [keys |-> keys[i],
      stock |-> stock_series[keys[i]],
      cash |-> cash_series[keys[i]],
      total_aum |-> cash_series[keys[i]]]]

\* lines 200-208: the frame of keys, stock, cash and total_aum
Portfolio ==
  LET keys == KeysOf(DOMAIN stock_series) IN
  [i \in 1..Len(keys) |->
     [keys |-> keys[i],
      stock |-> stock_series[keys[i]],
      cash |-> cash_series[keys[i]],
      total_aum |-> stock_series[keys[i]] + cash_series[keys[i]]]]

\* line 228: days between the first and the last key of the portfolio
DaysInvested(pf) == pf[Len(pf)].keys - pf[1].keys

\* lines 224-231: calculate_total_return divides by the first total_aum and
\* calculate_annualized_return by days_invested / days_in_year, both in
\* Python float arithmetic, where a zero divisor raises
MetricsRaise(pf) == pf[1].total_aum = 0 \/ DaysInvested(pf) = 0

(***************************************************************************)
(* performance.py, as _get_stats applies it to the total_aum column.  A    *)
(* float quotient a / b is kept as the exact fraction [num |-> a,          *)
(* den |-> b] of the integer values of the model; with b = 0 it stands for *)
(* the IEEE result of the division: inf, -inf or, for 0 / 0, nan.          *)
(***************************************************************************)
\* sign of an integer
Sgn(x) == IF x > 0 THEN 1 ELSE IF x < 0 THEN -1 ELSE 0

\* 0 / 0
IsNan(a) == a.den = 0 /\ a.num = 0

\* float comparison a < b: false when either side is nan
FracLess(a, b) ==
  IF IsNan(a) \/ IsNan(b) THEN FALSE
  ELSE IF a.den = 0 THEN a.num < 0 /\ ~(b.den = 0 /\ b.num < 0)
  ELSE IF b.den = 0 THEN b.num > 0
  ELSE Sgn(a.den) * Sgn(b.den) * (a.num * b.den - b.num * a.den) < 0

\* float comparison a == b
FracEq(a, b) ==
  ~IsNan(a) /\ ~IsNan(b) /\ ~FracLess(a, b) /\ ~FracLess(b, a)

\* line 218: p = portfolio["total_aum"]
TotalAum(pf) == [i \in 1..Len(pf) |-> pf[i].total_aum]

\* polars Series.cum_max: the running maximum to date
cum_max(values) ==
  [i \in 1..Len(values) |->
     CHOOSE m \in {values[j] : j \in 1..i} :
       \A j \in 1..i : m >= values[j]]

\* performance.py line 60: portfolio_values / portfolio_values.cum_max() - 1
Drawdown(values) ==
  LET peak == cum_max(values) IN
  [i \in 1..Len(values) |->
     [num |-> values[i] - peak[i], den |-> peak[i]]]

\* performance.py line 62: drawdown.min(), which skips nan entries; the first
\* entry, values[1] / values[1] - 1, is never nan when the report is computed
calculate_maximum_drawdown(values) ==
  LET drawdown == Drawdown(values)
      numbers == {i \in 1..Len(values) : ~IsNan(drawdown[i])}
  IN CHOOSE d \in {drawdown[i] : i \in numbers} :
       \A i \in numbers : ~FracLess(drawdown[i], d)

\* line 234: p.pct_change(), without its leading null, which std() skips
pct_change(values) ==
  [i \in 1..(Len(values) - 1) |->
     [num |-> values[i + 1] - values[i], den |-> values[i]]]

\* performance.py line 32: daily_returns.std() * np.sqrt(trading_days), by
\* its class: nan when a return is inf or nan, else zero exactly when all
\* the returns are equal (the sample standard deviation of equal numbers)
calculate_annualized_volatility(daily_returns) ==
  IF \E i \in DOMAIN daily_returns : daily_returns[i].den = 0 THEN "nan"
  ELSE IF \A i, j \in DOMAIN daily_returns :
              FracEq(daily_returns[i], daily_returns[j])
    THEN "zero" ELSE "positive"

\* performance.py lines 18 and 25:
\* np.power(1 + total_return, 1 / (days_invested / days_in_year)) - 1 with
\* total_return = final / initial - 1, by its class: the power of a base
\* above, at or below 1 is above, at or below 1; of a negative base with a
\* fractional exponent it is nan
calculate_annualized_return(final, initial) ==
  IF Sgn(final) * Sgn(initial) < 0 THEN "nan"
  ELSE IF FracLess([num |-> initial, den |-> initial],
                   [num |-> final, den |-> initial]) THEN "positive"
  ELSE IF final = initial THEN "zero"
  ELSE "negative"

\* performance.py lines 39-42 with risk_free_rate = 0, by its class: both
\* operands are numpy floats, whose division by zero gives inf, -inf or nan
\* with a warning and raises nothing, so the except branch never runs;
\* "quotient" is the ordinary quotient of a non-zero volatility
calculate_sharpe_ratio(annualized_return, annualized_volatility) ==
  IF annualized_return = "nan" \/ annualized_volatility = "nan" THEN "nan"
  ELSE IF annualized_volatility = "zero"
    THEN CASE annualized_return = "positive" -> "inf"
           [] annualized_return = "negative" -> "-inf"
           [] annualized_return = "zero" -> "nan"
  ELSE "quotient"

\* lines 218-251: the entries of the report computed from the frame that
\* _get_stats stored in self.portfolio
annualised_return ==
  LET p == TotalAum(portfolio) IN calculate_annualized_return(p[Len(p)], p[1])
annualised_volatility ==
  calculate_annualized_volatility(pct_change(TotalAum(portfolio)))
sharpe_ratio ==
  calculate_sharpe_ratio(annualised_return, annualised_volatility)
max_drawdown == calculate_maximum_drawdown(TotalAum(portfolio))

get_stats ==
  /\ pc = "stats"
  /\ portfolio' = Portfolio
  /\ result' = IF MetricsRaise(Portfolio) THEN "ZeroDivisionError"
                ELSE "metrics"
  /\ pc' = "idle"
  /\ UNCHANGED << strategy_attached, data_attached, data, cash, initial_cash,
                  current_idx, cash_series, stock_series,
                  strategy_current_idx, strategy_data, strategy_cash, orders,
                  trades, barpos, fi, runs, placed, strategy_raised >>

Next ==
  \/ add_data
  \/ add_strategy
  \/ run
  \/ NextBar
  \/ FillOrder
  \/ buy
  \/ sell
  \/ buy_limit
  \/ sell_limit
  \/ Snapshot
  \/ get_stats

\* a strategy that places its orders through the four methods of Strategy
Spec == Init /\ [][Next]_vars

\* a strategy whose on_bar places market buys and orders of the kinds STOP and
\* STOP_LIMIT
NextStop ==
  \/ add_data
  \/ add_strategy
  \/ run
  \/ NextBar
  \/ FillOrder
  \/ buy
  \/ append_stop_order
  \/ Snapshot
  \/ get_stats

SpecStop == Init /\ [][NextStop]_vars

\* a strategy that places market orders, run on the rising table
NextRising ==
  \/ add_data_rising
  \/ add_strategy
  \/ run
  \/ NextBar
  \/ FillOrder
  \/ buy
  \/ sell
  \/ Snapshot
  \/ get_stats

SpecRising == Init /\ [][NextRising]_vars

(***************************************************************************)
(* Properties.  In an action formula the unprimed variables are the state  *)
(* immediately before the step; a step taken at pc = "fill" is one         *)
(* evaluation of the pending order orders[fi] against the bar Data[barpos].*)
(***************************************************************************)

\* C1: for every buy trade the engine records, fill_price * size does not
\* exceed the cash balance immediately before that fill.
C1_BuyFillWithinCash ==
  [][ (Len(trades') = Len(trades) + 1 /\ trades'[Len(trades')].side = "buy")
        => LET t == trades'[Len(trades')]
           IN t.price * t.size <= cash ]_vars

\* C2: a pending sell market order of magnitude m is filled iff
\* position_size >= m when it is evaluated, at the open of the current bar;
\* otherwise it is discarded and no trade is recorded.
C2_SellMarketRule ==
  [][ (pc = "fill" /\ orders[fi].side = "sell" /\ orders[fi].type = "market")
        => LET order == orders[fi]
               m == -order.size
           IN IF position_size >= m
                THEN trades' = Append(trades,
                        [ticker |-> order.ticker, side |-> "sell",
                         size |-> order.size, type |-> "market",
                         price |-> Data[barpos].open,
                         idx |-> Data[barpos].date])
                ELSE trades' = trades ]_vars

\* C3: every trade fills an order enqueued during the strategy step of the
\* bar immediately before the trade's bar, at a price of the trade's own bar
\* (its open for a market order, the limit price for a limit order).
C3_OneBarLag ==
  [][ Len(trades') = Len(trades) + 1
        => LET t == trades'[Len(trades')]
               order == orders[fi]
           IN /\ barpos > 1
              /\ order.idx = Data[barpos - 1].date
              /\ t.idx = Data[barpos].date
              /\ t.price = IF order.type = "limit" THEN order.limit_price
                           ELSE Data[barpos].open ]_vars

\* C4: at the start of every on_bar invocation the pending-order queue is
\* empty: the fill step before it has cleared the queue, whether its orders
\* were filled or discarded.
C4_QueueEmptyAtOnBar ==
  [][ (pc # "on_bar" /\ pc' = "on_bar") => orders' = << >> ]_vars

\* C4 witness: on_bar of the second bar starts with an empty queue after a
\* fill step that filled one of two pending orders and discarded the other.
C4_Witness ==
  /\ pc = "on_bar"
  /\ barpos = 2
  /\ placed = 2
  /\ Len(trades) = 1
  /\ orders = << >>

\* C5: every enqueued order is removed by the very next fill step, so no
\* order is pending when a run returns, none is pending when a run starts,
\* and no fill step of a later run can fill it.
C5_OrdersLiveOneBarStep ==
  [][ /\ (pc = "fill" /\ pc' # "fill") => orders' = << >>
      /\ (pc = "stats" /\ pc' = "idle") => orders' = << >>
      /\ (pc = "idle" /\ pc' # "idle") => orders = << >> ]_vars

\* C6: in every run the fill step of the first bar has nothing to fill: no
\* trade carries the first bar's index, and cash is unchanged from the start
\* of the run up to the first bar's snapshot, which records that cash.
C6_FirstBarFillsNothing ==
  [][ /\ \A i \in DOMAIN trades' : trades'[i].idx # Data[1].date
      /\ (barpos' = 1) => (cash' = cash /\ trades' = trades)
      /\ (barpos = 1 /\ barpos' = 2)
           => (cash_series'[Data[1].date] = cash /\ cash' = cash) ]_vars

\* C7: a pending buy market order of size s is filled iff cash >= s * open
\* of the current bar when it is evaluated; the trade price is that open and
\* cash decreases by s * open.
C7_BuyMarketRule ==
  [][ (pc = "fill" /\ orders[fi].side = "buy" /\ orders[fi].type = "market")
        => LET order == orders[fi]
               open == Data[barpos].open
           IN IF cash >= order.size * open
                THEN /\ trades' = Append(trades,
                          [ticker |-> order.ticker, side |-> "buy",
                           size |-> order.size, type |-> "market",
                           price |-> open, idx |-> Data[barpos].date])
                     /\ cash' = cash - order.size * open
                ELSE /\ trades' = trades
                     /\ cash' = cash ]_vars

\* C7 witness, scenario A: cash 1000, a market buy of 10 placed on bar 1 is
\* filled on bar 2 at its open 50; cash is 500 and position_size is 10.
C7_Witness ==
  /\ initial_cash = 1000
  /\ placed = 1
  /\ trades = << [ticker |-> "T", side |-> "buy", size |-> 10,
                  type |-> "market", price |-> 50, idx |-> 2] >>
  /\ cash = 500
  /\ position_size = 10

C9_SellLimitRule ==
  [][ (pc = "fill" /\ orders[fi].side = "sell" /\ orders[fi].type = "limit")
        => LET order == orders[fi]
               bar == Data[barpos]
               m == -order.size
           IN IF position_size >= m /\ order.limit_price <= bar.high
                THEN trades' = Append(trades,
                        [ticker |-> order.ticker, side |-> "sell",
                         size |-> order.size, type |-> "limit",
                         price |-> order.limit_price, idx |-> bar.date])
                ELSE trades' = trades ]_vars

\* C10: an order that fails the fillability test of its side and kind
\* (buy: cash >= size * open, limit_price >= low for a limit; sell:
\* position_size >= magnitude, limit_price <= high for a limit) is discarded
\* silently: no error, no trade, cash and position_size unchanged, and the
\* order is not evaluated again nor left in the queue.
C10_DiscardIsSilent ==
  [][ pc = "fill"
        => LET order == orders[fi]
               bar == Data[barpos]
               fillable ==
                 IF order.side = "buy"
                   THEN /\ cash >= order.size * bar.open
                        /\ order.type = "limit" => order.limit_price >= bar.low
                   ELSE /\ position_size >= -order.size
                        /\ order.type = "limit" => order.limit_price <= bar.high
           IN ~fillable
                => /\ trades' = trades
                   /\ cash' = cash
                   /\ strategy_cash' = strategy_cash
                   /\ result' = result
                   /\ \/ pc' = "fill" /\ fi' = fi + 1 /\ orders' = orders
                      \/ pc' = "on_bar" /\ orders' = << >> ]_vars

\* C11: in every reachable state cash equals initial_cash minus the sum over
\* the trade history of price * signed size (only fills change cash, each by
\* -(price * signed size)).
C11_CashIsInitialMinusTrades ==
  LET Spent[i \in 0..Len(trades)] ==
        IF i = 0 THEN 0 ELSE Spent[i - 1] + trades[i].price * trades[i].size
  IN cash = initial_cash - Spent[Len(trades)]

\* C11 witness: a buy and a sell have been recorded and cash has moved.
C11_Witness ==
  /\ \E i \in DOMAIN trades : trades[i].side = "buy"
  /\ \E i \in DOMAIN trades : trades[i].side = "sell"
  /\ cash # initial_cash

\* C12: a fill step that evaluates an order of kind STOP or STOP_LIMIT
\* records no trade and leaves cash unchanged.
C12_StopNeverMatched ==
  [][ (pc = "fill" /\ orders[fi].type \in {"stop", "stop_limit"})
        => (trades' = trades /\ cash' = cash) ]_vars

\* C13: an order-placement call made while no run is active (before the
\* first run or after a run has returned) raises and enqueues no order.
C13_PlacementOutsideRunRaises ==
  [][ (pc = "idle" /\ placed' = placed + 1)
        => (strategy_raised' = "ValueError" /\ orders' = orders) ]_vars

\* C14: run called with no strategy or no data attached raises and leaves
\* the engine and the strategy unchanged: no bar is processed, cash, the
\* snapshots, the queue and the trade history stay as they were.
C14_RunWithoutStrategyOrDataRaises ==
  [][ (pc = "idle" /\ runs' = runs + 1
         /\ (~strategy_attached \/ ~data_attached))
        => /\ result' = "ValueError"
           /\ pc' = "idle"
           /\ UNCHANGED << cash, initial_cash, current_idx, cash_series,
                           stock_series, portfolio, strategy_current_idx,
                           strategy_cash, orders, trades, barpos,
                           strategy_attached, data_attached >> ]_vars

\* C14 witness: run was called with a strategy but no data; it raised and
\* the engine is as constructed.
C14_Witness ==
  /\ result = "ValueError"
  /\ strategy_attached
  /\ ~data_attached
  /\ pc = "idle"
  /\ cash = initial_cash
  /\ cash_series = << >>
  /\ current_idx = None

\* C15: when they enqueue, buy and buy_limit append exactly one buy order
\* of signed size +m, sell and sell_limit exactly one sell order of signed
\* size -m, tagged with the strategy's current bar index, of kind market
\* (no limit price) resp. limit with limit price p; nothing else changes.
C15_SignConvention ==
  [][ strategy_current_idx # None
        => \A ticker \in Tickers, m \in Sizes :
             LET Enqueued(side, size, type, limit_price) ==
                   /\ orders' = Append(orders,
                        [ticker |-> ticker, side |-> side, size |-> size,
                         type |-> type, limit_price |-> limit_price,
                         idx |-> strategy_current_idx])
                   /\ UNCHANGED << cash, initial_cash, current_idx,
                                   cash_series, stock_series, portfolio,
                                   strategy_current_idx, strategy_cash,
                                   trades, pc, barpos, fi, result >>
             IN /\ CallBuy(ticker, m) => Enqueued("buy", m, "market", None)
                /\ CallSell(ticker, m) => Enqueued("sell", -m, "market", None)
                /\ \A p \in BuyLimitPrices :
                     CallBuyLimit(ticker, p, m)
                       => Enqueued("buy", m, "limit", p)
                /\ \A p \in SellLimitPrices :
                     CallSellLimit(ticker, p, m)
                       => Enqueued("sell", -m, "limit", p) ]_vars

\* C15 witness: during on_bar of bar 2 the queue holds a market sell and a
\* limit sell of magnitude 10, both with size -10 and index 2.
C15_Witness ==
  /\ pc = "on_bar"
  /\ current_idx = 2
  /\ orders = << [ticker |-> "T", side |-> "sell", size |-> -10,
                  type |-> "market", limit_price |-> None, idx |-> 2],
                 [ticker |-> "T", side |-> "sell", size |-> -10,
                  type |-> "limit", limit_price |-> 55, idx |-> 2] >>

\* C16: the step that ends bar t stores, under t's date, the cash after t's
\* fill step and (position after t's fill step) * close of t, and leaves the
\* snapshots of all other bars alone; no other step touches the snapshots;
\* when run returns, the series has one row per bar, in bar order.
C16_OneSnapshotPerBar ==
  [][ LET Position(ts) ==
            LET Sum[i \in 0..Len(ts)] ==
                  IF i = 0 THEN 0 ELSE Sum[i - 1] + ts[i].size
            IN Sum[Len(ts)]
          EndOfBar == pc = "on_bar" /\ pc' # "on_bar"
      IN /\ pc = "on_bar" => (cash' = cash /\ trades' = trades)
         /\ EndOfBar
              => LET d == Data[barpos].date IN
                 /\ DOMAIN cash_series' = DOMAIN cash_series \cup {d}
                 /\ DOMAIN stock_series' = DOMAIN stock_series \cup {d}
                 /\ cash_series'[d] = cash
                 /\ stock_series'[d] = Position(trades) * Data[barpos].close
                 /\ \A x \in DOMAIN cash_series \ {d} :
                      /\ cash_series'[x] = cash_series[x]
                      /\ stock_series'[x] = stock_series[x]
         /\ ~EndOfBar => UNCHANGED << cash_series, stock_series >>
         /\ (pc = "stats" /\ pc' = "idle")
              => /\ Len(portfolio') = Len(Data)
                 /\ \A i \in 1..Len(Data) :
                      /\ portfolio'[i].keys = Data[i].date
                      /\ portfolio'[i].cash = cash_series[Data[i].date]
                      /\ portfolio'[i].stock = stock_series[Data[i].date]
     ]_vars

\* C16 witness: after the run of scenario A the series has three rows: cash
\* 1000 and no stock on bar 1, cash 500 and 10 shares at the close 51 on
\* bar 2.
C16_Witness ==
  /\ pc = "idle"
  /\ result = "metrics"
  /\ Len(portfolio) = 3
  /\ portfolio[1].cash = 1000 /\ portfolio[1].stock = 0
  /\ portfolio[2].cash = 500 /\ portfolio[2].stock = 510
  /\ portfolio[3].keys = 3

\* C17: for every row t of the reported portfolio series,
\* cash[t] + stock[t] = total_aum[t].
C17_TotalAumIsCashPlusStock ==
  \A i \in DOMAIN portfolio :
    portfolio[i].cash + portfolio[i].stock = portfolio[i].total_aum

\* C17 witness: a reported series with a row that holds stock.
C17_Witness ==
  /\ Len(portfolio) = 3
  /\ portfolio[3].stock > 0
  /\ portfolio[3].total_aum > portfolio[3].cash

\* C18: every step leaves the trade history as it was or appends trades at
\* its end; no recorded trade is removed, moved or modified.
C18_TradesAppendOnly ==
  [][ /\ Len(trades') >= Len(trades)
      /\ \A i \in DOMAIN trades : trades'[i] = trades[i] ]_vars

\* C18 witness: a history of three trades, the first two of which differ.
C18_Witness ==
  /\ Len(trades) = 3
  /\ trades[1] # trades[2]

\* C19: position_size is the sum of the signed sizes of all trades, and that
\* sum at that moment is the position the sell test compares with the
\* order's size and the position each bar's stock value is computed from.
C19_PositionIsSumOfTrades ==
  [][ LET Sum(ts) ==
            LET S[i \in 0..Len(ts)] ==
                  IF i = 0 THEN 0 ELSE S[i - 1] + ts[i].size
            IN S[Len(ts)]
      IN /\ position_size = Sum(trades)
         /\ SumSizes(trades') = Sum(trades')
         /\ (pc = "on_bar" /\ pc' # "on_bar")
              => stock_series'[Data[barpos].date]
                   = Sum(trades) * Data[barpos].close
         /\ (pc = "fill" /\ orders[fi].side = "sell")
              => (Len(trades') = Len(trades) + 1
                    <=> /\ Sum(trades) >= orders[fi].size
                        /\ orders[fi].type = "limit"
                             => orders[fi].limit_price <= Data[barpos].high)
     ]_vars

\* C19 witness: a run has returned with buys and sells in the history.
C19_Witness ==
  /\ pc = "idle"
  /\ result = "metrics"
  /\ \E i \in DOMAIN trades : trades[i].size > 0
  /\ \E i \in DOMAIN trades : trades[i].size < 0
  /\ position_size # 0

\* C20: run goes through the bars in order, one fill step, one strategy step
\* and one snapshot per bar, leaves the loop only after the last bar, and
\* then returns the metrics report.
C20_RunReturnsMetrics ==
  [][ /\ pc = "bar" => (pc' \in {"fill", "on_bar"} /\ barpos' = barpos)
      /\ pc = "fill" => (pc' \in {"fill", "on_bar"} /\ barpos' = barpos)
      /\ (pc = "on_bar" /\ pc' # "on_bar")
           => /\ barpos' = barpos + 1
              /\ pc' = IF barpos < Len(Data) THEN "bar" ELSE "stats"
      /\ pc = "stats"
           => (barpos = Len(Data) + 1 /\ pc' = "idle" /\ result' = "metrics")
    ]_vars

\* C21: for every total_aum series of a returned report, max_drawdown, the
\* minimum over the series of value / running maximum to date - 1, is <= 0,
\* and it is 0 only when total_aum never decreases from one bar to the next.
C21_MaxDrawdownBoundary ==
  result = "metrics"
    => LET p == TotalAum(portfolio)
           zero == [num |-> 0, den |-> 1]
           NonDecreasing == \A i \in 1..(Len(p) - 1) : p[i] <= p[i + 1]
       IN /\ ~FracLess(zero, max_drawdown)
          /\ FracEq(max_drawdown, zero) => NonDecreasing

\* C22: whenever the annualised volatility of a returned report is zero, its
\* Sharpe ratio is not-a-number, whatever the annualised return.
C22_SharpeNanAtZeroVolatility ==
  (result = "metrics" /\ annualised_volatility = "zero")
    => sharpe_ratio = "nan"

\* C23 (as stated): whether a pending order is filled does not depend on the
\* other orders pending in the same fill step nor on its place in the queue:
\* it is filled iff it would be filled as the only pending order, that is,
\* evaluated against the cash and the position the fill step started with
\* (those of the previous bar's snapshot).
C23_FillIndependentOfQueue ==
  [][ (pc = "fill" /\ barpos > 1)
        => LET order == orders[fi]
               bar == Data[barpos]
               prev == Data[barpos - 1]
               cash0 == cash_series[prev.date]
               position0 == stock_series[prev.date] \div prev.close
               alone ==
                 IF order.side = "buy"
                   THEN /\ cash0 >= order.size * bar.open
                        /\ order.type = "limit" => order.limit_price >= bar.low
                   ELSE /\ position0 >= order.size
                        /\ order.type = "limit" => order.limit_price <= bar.high
           IN Len(trades') = Len(trades) + 1 <=> alone ]_vars

\* C23 (amended): whether a pending order is filled is a function of the
\* order itself, the current bar, and the cash and the position at the moment
\* the order is evaluated, which include the fills of the orders before it in
\* the same fill step; the fill price is a function of the order and the bar
\* alone; the orders behind it in the queue have no influence.
C23_FillDependsOnLiveCashAndPosition ==
  [][ pc = "fill"
        => LET Decide(order, bar, c, p) ==
                 IF order.side = "buy"
                   THEN /\ c >= order.size * bar.open
                        /\ order.type = "limit" => order.limit_price >= bar.low
                   ELSE /\ p >= order.size
                        /\ order.type = "limit" => order.limit_price <= bar.high
               PriceOf(order, bar) ==
                 IF order.type = "limit" THEN order.limit_price ELSE bar.open
               filled == Len(trades') = Len(trades) + 1
           IN /\ filled
                   <=> Decide(orders[fi], Data[barpos], cash, position_size)
              /\ filled
                   => /\ trades'[Len(trades')].price
                           = PriceOf(orders[fi], Data[barpos])
                      /\ cash' = cash - PriceOf(orders[fi], Data[barpos])
                                          * orders[fi].size
              /\ ~filled => (trades' = trades /\ cash' = cash) ]_vars

\* C23 witness: three market buys of 10 were pending in the fill step of
\* bar 2 (open 50, cash 1000): the first two were filled and used up the
\* cash, the third, identical to them, was discarded.
C23_Witness ==
  /\ pc = "on_bar"
  /\ barpos = 2
  /\ placed = 3
  /\ cash_series[1] = 1000
  /\ Len(trades) = 2
  /\ \A i \in DOMAIN trades : trades[i].type = "market" /\ trades[i].idx = 2
  /\ cash = 0
  /\ orders = << >>

\* C24: whenever the engine invokes on_bar, and for as long as the hook runs,
\* strategy.cash equals the engine's cash (the starting cash on the first
\* bar, the cash after all fills of the bar's fill step otherwise) and
\* strategy.current_idx equals the engine's current_idx, the date of the bar
\* being processed.
C24_StrategyContextIsLive ==
  pc = "on_bar"
    => /\ strategy_cash = cash
       /\ strategy_current_idx = current_idx
       /\ current_idx = Data[barpos].date

\* C24 witness: on_bar of bar 2 runs after a fill step that filled two
\* orders; the strategy sees the cash left after both fills.
C24_Witness ==
  /\ pc = "on_bar"
  /\ barpos = 2
  /\ Len(trades) = 2
  /\ \A i \in DOMAIN trades : trades[i].idx = current_idx
  /\ cash # initial_cash
  /\ strategy_cash = cash
  /\ strategy_current_idx = 2

====
